---- MODULE Spec2Model ----
(***************************************************************************)
(* A model of backend/app.py: the /upload and /analyze request handlers,   *)
(* the text extractor, the retrying completion client _call_groq and the   *)
(* regular expressions that parse the model's reply.                       *)
(*                                                                         *)
(* Text is a sequence of tokens.  In a reply the tokens are                *)
(*   "R"  the word "Rating"            "c"  a colon                        *)
(*   "S"  the word "Suggestions"       "h"  a hyphen                       *)
(*   "E"  "Example of rewritten section"                                   *)
(*   "d"  a decimal digit              "w"  a whitespace character         *)
(*   "t"  any other character                                              *)
(* A file name is a sequence of characters.                                *)
(***************************************************************************)
EXTENDS Integers, Sequences, FiniteSets, TLC

VARIABLES
    client,       \* the module-level completion client, or None
    fs,           \* the temp directory: path -> stored file, or NoFile
    pc,           \* where each request handler stands
    request,      \* the request each handler serves
    temp_path,    \* upload_resume's temp_path
    resume_text,  \* the handler's resume_text
    prompt,       \* the prompt handed to _call_groq
    max_retries,  \* _call_groq's max_retries
    attempt,      \* _call_groq's loop variable
    last_err,     \* _call_groq's last_err
    ai_reply,     \* the handler's ai_reply
    parsed,       \* upload_resume's rating, suggestions and example
    response,     \* the response the handler sent
    result,       \* what _call_groq returned or raised to its caller
    outcomes,     \* history: what each client.responses.create call did
    source        \* history: the stored file the extractor opened

vars == <<client, fs, pc, request, temp_path, resume_text, prompt, max_retries,
          attempt, last_err, ai_reply, parsed, response, result, outcomes,
          source>>

-----------------------------------------------------------------------------
(* Bounds of the exploration *)

\* the longest text the completion service answers with, in tokens
MaxOutputLen == 5
\* the largest max_retries a direct call of _call_groq passes
MaxRetriesArg == 4

-----------------------------------------------------------------------------
(* Python values *)

\* Optional values (a match group or None): <<>> is None, <<v>> is v.
Nothing == <<>>
Some(v) == <<v>>

\* The least and the greatest member of a non-empty set of numbers (the set
\* is bound to T so that it is evaluated once)
Least(S) == CHOOSE i \in UNION {{k \in T : \A j \in T : k <= j} : T \in {S}} : TRUE
Greatest(S) == CHOOSE i \in UNION {{k \in T : \A j \in T : j <= k} : T \in {S}} : TRUE

\* The least index >= from at which s holds one of toks; Len(s) + 1 if none.
Find(s, toks, from) ==
    LET hits == {i \in from..Len(s) : s[i] \in toks}
    IN  IF hits = {} THEN Len(s) + 1 ELSE Least(hits)

\* The least index >= from that holds no whitespace: what \s* stops at.
SkipWs(s, from) ==
    LET hits == {i \in from..Len(s) : s[i] /= "w"}
    IN  IF hits = {} THEN Len(s) + 1 ELSE Least(hits)

\* s[lo..hi].strip(): the slice without its leading and trailing whitespace
StripSlice(s, lo, hi) ==
    LET hits == {i \in lo..hi : s[i] /= "w"}
    IN  IF hits = {} THEN <<>> ELSE SubSeq(s, Least(hits), Greatest(hits))

\* str.strip()
Strip(s) == StripSlice(s, 1, Len(s))

\* Where \s*[:\-]?\s* stops when it starts at from.
SkipSep(s, from) ==
    LET i == SkipWs(s, from)
    IN  IF i <= Len(s) /\ s[i] \in {"c", "h"} THEN SkipWs(s, i + 1) ELSE i

\* An exception is its message: a format and the values formatted into it.
Exc(fmt, args) == [fmt |-> fmt, args |-> args]
\* str(e) of an optional exception; str(None) is "None"
Str(e) == IF e = Nothing THEN "None" ELSE e[1].fmt

-----------------------------------------------------------------------------
(* The reply's three regular expressions (upload_resume) *)

\* A match object is the span of its group(1) in the searched string.
Span(lo, hi) == <<lo, hi>>
\* m.group(1)
Group(s, m) == SubSeq(s, m[1][1], m[1][2])

\* re.search(r'Rating\s*[:\-]?\s*(\d{1,2})', s, re.IGNORECASE), tried at the
\* "Rating" that starts at i: the match, or Nothing when it does not match.
RatingAt(s, i) ==
    LET j == SkipSep(s, i + 1)
    IN  IF j <= Len(s) /\ s[j] = "d"
        THEN Some(Span(j, IF j < Len(s) /\ s[j + 1] = "d" THEN j + 1 ELSE j))
        ELSE Nothing

\* The leftmost match.
rating_match(s) ==
    LET hits == {i \in 1..Len(s) : s[i] = "R" /\ RatingAt(s, i) /= Nothing}
    IN  IF hits = {} THEN Nothing
        ELSE CHOOSE m \in {RatingAt(s, i) : i \in {Least(hits)}} : TRUE

\* re.search(r'Suggestions\s*[:\-]?\s*(.*?)(?:Example of rewritten section|$)',
\*           s, re.IGNORECASE | re.DOTALL): the match, or Nothing.
suggestions_match(s) ==
    LET i == Find(s, {"S"}, 1)
        j == SkipSep(s, i + 1)
        k == Find(s, {"E"}, j)
    IN  IF i > Len(s) THEN Nothing ELSE Some(Span(j, k - 1))

\* re.search(r'Example of rewritten section.*?:\s*(.*)', s,
\*           re.IGNORECASE | re.DOTALL): the match, or Nothing.
example_match(s) ==
    LET i == Find(s, {"E"}, 1)
        k == Find(s, {"c"}, i + 1)
        j == SkipWs(s, k + 1)
    IN  IF i > Len(s) \/ k > Len(s) THEN Nothing ELSE Some(Span(j, Len(s)))

\* m.group(1) if m else None
GroupOf(s, m) == IF m = Nothing THEN Nothing ELSE Some(Group(s, m))

\* m.group(1).strip() if m else None
StripGroup(s, m) ==
    IF m = Nothing THEN Nothing ELSE Some(StripSlice(s, m[1][1], m[1][2]))

\* Python's truth value of an optional string: None and '' are false.
Truthy(v) == v /= Nothing /\ v[1] /= <<>>

\* rating, suggestions and example of a reply (lines 98-103)
ParseReply(s) ==
    CHOOSE p \in {[rating      |-> GroupOf(s, r),
                   suggestions |-> StripGroup(s, g),
                   example     |-> StripGroup(s, e)] :
                      r \in {rating_match(s)},
                      g \in {suggestions_match(s)},
                      e \in {example_match(s)}} : TRUE

\* The example left out of the test.
CompleteWithoutExample(p) == Truthy(p.rating) /\ Truthy(p.suggestions)

\* not (rating and suggestions and example) is false (line 104)
Complete(p) == Truthy(p.rating) /\ Truthy(p.suggestions) /\ Truthy(p.example)

-----------------------------------------------------------------------------
(* Paths and the text extractor *)

TempDir == <<"t", "e", "m", "p">>

\* One temporary name for every upload.
PathJoinFixed(dir, name) == dir \o <<"/", "a">>

\* os.path.join('temp', filename)
PathJoin(dir, name) ==
    IF name /= <<>> /\ Head(name) = "/" THEN name ELSE dir \o <<"/">> \o name

\* str.rfind of one character: its last index, 0 when it does not occur
RFind(p, ch) ==
    LET hits == {i \in 1..Len(p) : p[i] = ch}
    IN  IF hits = {} THEN 0 ELSE Greatest(hits)

\* os.path.splitext(p)[1]: from the last dot of the last component, unless
\* only dots precede it there.
SplitExt(p) ==
    LET sepIndex == RFind(p, "/")
        dotIndex == RFind(p, ".")
    IN  IF dotIndex > sepIndex
           /\ \E i \in (sepIndex + 1)..(dotIndex - 1) : p[i] /= "."
        THEN SubSeq(p, dotIndex, Len(p))
        ELSE <<>>

\* str.lower() on the characters file names are made of
LowerChar(ch) ==
    CASE ch = "P" -> "p"
      [] ch = "D" -> "d"
      [] ch = "F" -> "f"
      [] OTHER -> ch
Lower(p) == [i \in 1..Len(p) |-> LowerChar(p[i])]

NoFile == <<>>
\* A stored file: who wrote it, the format of its bytes and the text in it.
Stored(w, file) == <<[by |-> w, fmt |-> file.fmt, text |-> file.text]>>

FileNotFoundError == Exc("[Errno 2] No such file or directory", <<>>)
IsADirectoryError == Exc("[Errno 21] Is a directory", <<>>)
PDFSyntaxError == Exc("No /Root object! - Is this really a PDF?", <<>>)
PackageNotFoundError == Exc("Package not found", <<>>)

\* What extract_resume_text(file_path) does with the files as they are:
\* the text it returns, or the exception the library raises.
Returned(v) == [returned |-> Some(v), raised |-> Nothing]
Raised(e) == [returned |-> Nothing, raised |-> Some(e)]

extract_resume_text(file_path, files) ==
    LET ext == Lower(SplitExt(file_path))
        f == files[file_path]
    IN  IF ext = <<".", "p", "d", "f">> THEN
            IF f = NoFile THEN Raised(FileNotFoundError)
            ELSE IF f[1].fmt /= "pdf" THEN Raised(PDFSyntaxError)
            ELSE Returned(f[1].text)
        ELSE IF ext = <<".", "d", "o", "c", "x">> THEN
            IF f = NoFile \/ f[1].fmt /= "docx" THEN Raised(PackageNotFoundError)
            ELSE Returned(f[1].text)
        ELSE Returned(<<>>)

\* The stored file that call opens: none for an extension it does not read.
Opened(file_path, files) ==
    IF Lower(SplitExt(file_path)) \in {<<".", "p", "d", "f">>, <<".", "d", "o", "c", "x">>}
    THEN files[file_path]
    ELSE NoFile

-----------------------------------------------------------------------------
(* Requests, responses and the environments explored *)

GROQ_MODEL == "llama-3.3-70b-versatile"
\* _call_groq's default max_retries
DefaultMaxRetries == 3

\* A JSON value of the /analyze body: null or a string.
JNull == [type |-> "null", s |-> <<>>]
JStr(s) == [type |-> "string", s |-> s]
\* data.get('resume_text', '') of a JSON object given as its members
GetResumeText(body) == IF body = <<>> THEN JStr(<<>>) ELSE body[1]
\* The text stripped before it is tested.
JTruthyStripped(v) == v.type = "string" /\ Strip(v.s) /= <<>>

\* Python's truth value of that: None and '' are false
JTruthy(v) == v.type = "string" /\ v.s /= <<>>

NoUpload == [fmt |-> "junk", text |-> <<>>]
UploadRequest(has_file, filename, file) ==
    [kind |-> "upload", has_file |-> has_file, filename |-> filename,
     file |-> file, body |-> <<>>, max_retries |-> DefaultMaxRetries]
AnalyzeRequest(body) ==
    [kind |-> "analyze", has_file |-> FALSE, filename |-> <<>>,
     file |-> NoUpload, body |-> body, max_retries |-> DefaultMaxRetries]
\* _call_groq called on its own, with a max_retries of the caller's choice
DirectCall(n) ==
    [kind |-> "call", has_file |-> FALSE, filename |-> <<>>,
     file |-> NoUpload, body |-> <<>>, max_retries |-> n]
NoRequest == DirectCall(0)

\* jsonify(...), status: absent members are Nothing
NoBody ==
    [error |-> Nothing, ai_rating |-> Nothing, ai_suggestions |-> Nothing,
     ai_example |-> Nothing, raw_ai_output |-> Nothing, model |-> Nothing]
ErrorResponse(status, msg) ==
    [status |-> status, body |-> [NoBody EXCEPT !.error = Some(msg)]]
NoResponse == [status |-> 0, body |-> NoBody]

NoParse == [rating |-> Nothing, suggestions |-> Nothing, example |-> Nothing]
NoResult == [returned |-> Nothing, raised |-> Nothing]

ConfigError == Exc("GROQ_API_KEY is not configured on the server.", <<>>)
\* RuntimeError(f"Groq AI request failed after {max_retries} attempts: {last_err}")
ExhaustedError(n, err) ==
    Exc("Groq AI request failed after {max_retries} attempts: {last_err}",
        <<n, Str(err)>>)

\* All token sequences of length at most n
RECURSIVE SeqsUpTo(_, _)
SeqsUpTo(S, n) ==
    IF n = 0 THEN {<<>>}
    ELSE LET shorter == SeqsUpTo(S, n - 1)
         IN  shorter \cup {Append(q, x) : q \in {r \in shorter : Len(r) = n - 1}, x \in S}

ReplyTokens == {"R", "S", "E", "c", "h", "d", "w", "t"}

Pdf == <<"a", ".", "p", "d", "f">>
PdfUpper == <<"a", ".", "P", "D", "F">>
Docx == <<"a", ".", "d", "o", "c", "x">>
Txt == <<"a", ".", "t", "x", "t">>
DotPdf == <<".", "p", "d", "f">>
OtherPdf == <<"b", ".", "p", "d", "f">>
FileNames == {Pdf, PdfUpper, Docx, Txt, DotPdf, OtherPdf, <<>>}
Paths == {PathJoin(TempDir, n) : n \in FileNames}

Texts == {<<>>, <<"w">>, <<"t">>, <<"w", "t", "w">>}
Files == [fmt : {"pdf", "docx"}, text : Texts] \cup {NoUpload}

NoPrompt == [template |-> "none", text |-> <<>>]
\* The prompts of lines 84-95 and 117-120: a fixed template and the text.
UploadPrompt(text) == [template |-> "upload", text |-> text]
AnalyzePrompt(text) == [template |-> "analyze", text |-> text]

-----------------------------------------------------------------------------
(* The handlers.  env is the environment a specification explores: its     *)
(* request slots, the requests that arrive, what the completion service    *)
(* answers and throws, and whether GROQ_API_KEY is set.                    *)

\* Lines 27-31 and the state before any request.
InitIn(env) ==
    /\ client \in env.clients
    /\ fs = [p \in Paths |-> NoFile]
    /\ pc = [w \in env.workers |-> "idle"]
    /\ request = [w \in env.workers |-> NoRequest]
    /\ temp_path = [w \in env.workers |-> <<>>]
    /\ resume_text = [w \in env.workers |-> <<>>]
    /\ prompt = [w \in env.workers |-> NoPrompt]
    /\ max_retries = [w \in env.workers |-> 0]
    /\ attempt = [w \in env.workers |-> 0]
    /\ last_err = [w \in env.workers |-> Nothing]
    /\ ai_reply = [w \in env.workers |-> <<>>]
    /\ parsed = [w \in env.workers |-> NoParse]
    /\ response = [w \in env.workers |-> NoResponse]
    /\ result = [w \in env.workers |-> NoResult]
    /\ outcomes = [w \in env.workers |-> <<>>]
    /\ source = [w \in env.workers |-> NoFile]

\* The framework hands one of requests to its handler; a direct call enters
\* _call_groq with the caller's max_retries.
Arrive(w, requests) ==
    /\ pc[w] = "idle"
    /\ \E r \in requests :
          /\ request' = [request EXCEPT ![w] = r]
          /\ pc' = [pc EXCEPT ![w] = IF r.kind = "call" THEN "groq" ELSE r.kind]
          /\ max_retries' = [max_retries EXCEPT ![w] = r.max_retries]
    /\ UNCHANGED <<client, fs, temp_path, resume_text, prompt, attempt, last_err,
                   ai_reply, parsed, response, result, outcomes, source>>

\* The handler responds; nothing else changes.
Respond(w, resp) ==
    /\ response' = [response EXCEPT ![w] = resp]
    /\ pc' = [pc EXCEPT ![w] = "done"]

\* except Exception as e: return jsonify({'error': str(e)}), 500
ExceptionResponse(e) == ErrorResponse(500, e)

\* The check of line 70 left out.
MissingFileUnchecked(r) == FALSE

\* 'resume' not in request.files (line 70)
MissingFile(r) == ~r.has_file

\* Lines 70-71: no 'resume' member of request.files.
UploadNoFile(w) ==
    /\ pc[w] = "upload"
    /\ MissingFile(request[w])
    /\ Respond(w, ErrorResponse(400, Exc("No file uploaded", <<>>)))
    /\ UNCHANGED <<client, fs, request, temp_path, resume_text, prompt, max_retries,
                   attempt, last_err, ai_reply, parsed, result, outcomes, source>>

\* file.save(path): the files afterwards.
SaveFile(files, path, w, file) == [files EXCEPT ![path] = Stored(w, file)]

\* Lines 73-77: temp_path and file.save(temp_path); saving to the directory
\* itself (an empty file name) raises.
UploadSave(w) ==
    LET path == PathJoin(TempDir, request[w].filename)
    IN  /\ pc[w] = "upload"
        /\ ~MissingFile(request[w])
        /\ temp_path' = [temp_path EXCEPT ![w] = path]
        /\ IF path[Len(path)] = "/"
           THEN /\ Respond(w, ExceptionResponse(IsADirectoryError))
                /\ fs' = fs
           ELSE /\ fs' = SaveFile(fs, path, w, request[w].file)
                /\ pc' = [pc EXCEPT ![w] = "extract"]
                /\ response' = response
        /\ UNCHANGED <<client, request, resume_text, prompt, max_retries, attempt,
                       last_err, ai_reply, parsed, result, outcomes, source>>

\* Line 79: resume_text = extract_resume_text(temp_path); an exception goes
\* to the except clause of line 107.
UploadExtract(w) ==
    LET r == extract_resume_text(temp_path[w], fs)
    IN  /\ pc[w] = "extract"
        /\ source' = [source EXCEPT ![w] = Opened(temp_path[w], fs)]
        /\ IF r.raised /= Nothing
           THEN /\ Respond(w, ExceptionResponse(r.raised[1]))
                /\ resume_text' = resume_text
           ELSE /\ resume_text' = [resume_text EXCEPT ![w] = r.returned[1]]
                /\ pc' = [pc EXCEPT ![w] = "remove"]
                /\ response' = response
        /\ UNCHANGED <<client, fs, request, temp_path, prompt, max_retries, attempt,
                       last_err, ai_reply, parsed, result, outcomes>>

\* os.remove(path): the files afterwards.
RemoveFile(files, path) == [files EXCEPT ![path] = NoFile]

\* Line 80: os.remove(temp_path); it raises when the file is not there.
UploadRemove(w) ==
    /\ pc[w] = "remove"
    /\ IF fs[temp_path[w]] = NoFile
       THEN /\ Respond(w, ExceptionResponse(FileNotFoundError))
            /\ fs' = fs
       ELSE /\ fs' = RemoveFile(fs, temp_path[w])
            /\ pc' = [pc EXCEPT ![w] = "validate"]
            /\ response' = response
    /\ UNCHANGED <<client, request, temp_path, resume_text, prompt, max_retries,
                   attempt, last_err, ai_reply, parsed, result, outcomes, source>>

\* The text tested as it is, not stripped.
BlankUnstripped(text) == text = <<>>

\* not resume_text.strip() (line 81)
Blank(text) == Strip(text) = <<>>

\* Lines 81-97: the empty-extraction response, or the prompt and the call
\* _call_groq(prompt).
UploadValidate(w) ==
    /\ pc[w] = "validate"
    /\ IF Blank(resume_text[w])
       THEN /\ Respond(w, ErrorResponse(400,
                   Exc("Could not extract text from resume.", <<>>)))
            /\ UNCHANGED <<prompt, max_retries>>
       ELSE /\ prompt' = [prompt EXCEPT ![w] = UploadPrompt(resume_text[w])]
            /\ max_retries' = [max_retries EXCEPT ![w] = DefaultMaxRetries]
            /\ pc' = [pc EXCEPT ![w] = "groq"]
            /\ response' = response
    /\ UNCHANGED <<client, fs, request, temp_path, resume_text, attempt, last_err,
                   ai_reply, parsed, result, outcomes, source>>

\* Lines 112-122: the missing-text response, or the prompt and the call
\* _call_groq(prompt).
AnalyzeCheck(w) ==
    LET v == GetResumeText(request[w].body)
    IN  /\ pc[w] = "analyze"
        /\ resume_text' = [resume_text EXCEPT ![w] = v.s]
        /\ IF ~JTruthy(v)
           THEN /\ Respond(w, ErrorResponse(400,
                       Exc("No resume text provided", <<>>)))
                /\ UNCHANGED <<prompt, max_retries>>
           ELSE /\ prompt' = [prompt EXCEPT ![w] = AnalyzePrompt(v.s)]
                /\ max_retries' = [max_retries EXCEPT ![w] = DefaultMaxRetries]
                /\ pc' = [pc EXCEPT ![w] = "groq"]
                /\ response' = response
        /\ UNCHANGED <<client, fs, request, temp_path, attempt, last_err, ai_reply,
                       parsed, result, outcomes, source>>

-----------------------------------------------------------------------------
(* _call_groq *)

\* _call_groq returns v: line 97 or line 122 assigns ai_reply.
GroqReturns(w, v) ==
    /\ result' = [result EXCEPT ![w] = Returned(v)]
    /\ ai_reply' = [ai_reply EXCEPT ![w] =
                       IF request[w].kind = "call" THEN @ ELSE v]
    /\ pc' = [pc EXCEPT ![w] =
                 CASE request[w].kind = "upload" -> "parse"
                   [] request[w].kind = "analyze" -> "reply"
                   [] OTHER -> "done"]
    /\ response' = response

\* _call_groq raises e: the handler's except clause (lines 107-108 and
\* 124-125) answers 500 with str(e).
GroqRaises(w, e) ==
    /\ result' = [result EXCEPT ![w] = Raised(e)]
    /\ pc' = [pc EXCEPT ![w] = "done"]
    /\ response' = [response EXCEPT ![w] =
                       IF request[w].kind = "call" THEN @ ELSE ExceptionResponse(e)]
    /\ ai_reply' = ai_reply

\* The check of line 38 left out.
UnconfiguredUnchecked(c) == FALSE

\* if not client (line 38)
Unconfigured(c) == ~c

\* Lines 38-41: the configuration error, or the loop is entered.
GroqEnter(w) ==
    /\ pc[w] = "groq"
    /\ IF Unconfigured(client)
       THEN /\ GroqRaises(w, ConfigError)
            /\ UNCHANGED <<last_err, attempt>>
       ELSE /\ last_err' = [last_err EXCEPT ![w] = Nothing]
            /\ attempt' = [attempt EXCEPT ![w] = 1]
            /\ pc' = [pc EXCEPT ![w] =
                         IF 1 <= max_retries[w] THEN "create" ELSE "exhausted"]
            /\ UNCHANGED <<result, response, ai_reply>>
    /\ UNCHANGED <<client, fs, request, temp_path, resume_text, prompt, max_retries,
                   parsed, outcomes, source>>

\* Lines 44-50: client.responses.create returns one of outs as its
\* output_text, which, stripped, is the result.
CreateReturns(w, outs) ==
    /\ pc[w] = "create"
    /\ \E out \in outs :
          /\ outcomes' = [outcomes EXCEPT ![w] = Append(@, Returned(out))]
          /\ GroqReturns(w, Strip(out))
    /\ UNCHANGED <<client, fs, request, temp_path, resume_text, prompt, max_retries,
                   attempt, last_err, parsed, source>>

\* The first error kept instead of the last.
RecordFirstError(old, e) == IF old = Nothing THEN Some(e) ELSE old

\* last_err = e (line 52)
RecordError(old, e) == Some(e)

\* The loop left one attempt early.
LastAttemptEarly(a, n) == a = n - 1

\* The loop left one attempt late.
LastAttemptLate(a, n) == a = n + 1

\* if attempt == max_retries: break (lines 53-54)
LastAttempt(a, n) == a = n

\* Lines 44-54: client.responses.create throws one of errs.
CreateThrows(w, errs) ==
    /\ pc[w] = "create"
    /\ \E e \in errs :
          /\ outcomes' = [outcomes EXCEPT ![w] = Append(@, Raised(e))]
          /\ last_err' = [last_err EXCEPT ![w] = RecordError(@, e)]
    /\ IF LastAttempt(attempt[w], max_retries[w])
       THEN /\ pc' = [pc EXCEPT ![w] = "exhausted"]
            /\ attempt' = attempt
       ELSE /\ attempt' = [attempt EXCEPT ![w] = @ + 1]
            /\ pc' = pc
    /\ UNCHANGED <<client, fs, request, temp_path, resume_text, prompt, max_retries,
                   ai_reply, parsed, response, result, source>>

\* Line 55: the loop is over without a result.
GroqExhausted(w) ==
    /\ pc[w] = "exhausted"
    /\ GroqRaises(w, ExhaustedError(max_retries[w], last_err[w]))
    /\ UNCHANGED <<client, fs, request, temp_path, resume_text, prompt, max_retries,
                   attempt, last_err, parsed, outcomes, source>>

-----------------------------------------------------------------------------
(* The responses built from a reply *)

IncompleteResponse(reply) ==
    [status |-> 500,
     body |-> [NoBody EXCEPT
                 !.error = Some(Exc(
                     "AI could not provide a complete analysis. Please try again.",
                     <<>>)),
                 !.raw_ai_output = Some(reply)]]

SuccessResponse(p, reply) ==
    [status |-> 200,
     body |-> [NoBody EXCEPT
                 !.ai_rating = p.rating,
                 !.ai_suggestions = p.suggestions,
                 !.ai_example = p.example,
                 !.raw_ai_output = Some(reply)]]

\* Lines 104-106
UploadResponse(p, reply) ==
    IF ~Complete(p) THEN IncompleteResponse(reply) ELSE SuccessResponse(p, reply)

\* Lines 98-106: the reply is parsed and answered.
UploadParse(w) ==
    /\ pc[w] = "parse"
    /\ \E p \in {ParseReply(ai_reply[w])} :
          /\ parsed' = [parsed EXCEPT ![w] = p]
          /\ Respond(w, UploadResponse(p, ai_reply[w]))
    /\ UNCHANGED <<client, fs, request, temp_path, resume_text, prompt, max_retries,
                   attempt, last_err, ai_reply, result, outcomes, source>>

\* Line 123
AnalyzeResponse(reply) ==
    [status |-> 200,
     body |-> [NoBody EXCEPT
                 !.ai_suggestions = Some(reply), !.model = Some(GROQ_MODEL)]]

AnalyzeReply(w) ==
    /\ pc[w] = "reply"
    /\ Respond(w, AnalyzeResponse(ai_reply[w]))
    /\ UNCHANGED <<client, fs, request, temp_path, resume_text, prompt, max_retries,
                   attempt, last_err, ai_reply, parsed, result, outcomes, source>>

-----------------------------------------------------------------------------
(* Specifications *)

UploadRequests(names, files) ==
    {UploadRequest(FALSE, <<>>, NoUpload)}
        \cup {UploadRequest(TRUE, n, f) : n \in names, f \in files}
AnalyzeRequests ==
    {AnalyzeRequest(b) : b \in {<<>>, <<JNull>>} \cup {<<JStr(t)>> : t \in Texts}}
DirectCalls == {DirectCall(n) : n \in 0..MaxRetriesArg}

\* A reply with all three parts, one without the example and one without
\* a rating, as the service sends them
SampleOutputs ==
    {<<"w", "R", "c", "d", "w", "S", "c", "t", "w", "E", "c", "t", "w">>,
     <<"R", "c", "d", "w", "S", "c", "t">>,
     <<"w">>}

\* One request at a time; every kind of request.
SeqEnv ==
    [workers  |-> {1},
     requests |-> UploadRequests(FileNames, Files) \cup AnalyzeRequests \cup DirectCalls,
     outputs  |-> SampleOutputs,
     errors   |-> {Exc("rate limit", <<>>), Exc("timeout", <<>>)},
     clients  |-> BOOLEAN]

Step(w, env) ==
    \/ Arrive(w, env.requests)
    \/ UploadNoFile(w)
    \/ UploadSave(w)
    \/ UploadExtract(w)
    \/ UploadRemove(w)
    \/ UploadValidate(w)
    \/ AnalyzeCheck(w)
    \/ GroqEnter(w)
    \/ CreateReturns(w, env.outputs)
    \/ CreateThrows(w, env.errors)
    \/ GroqExhausted(w)
    \/ UploadParse(w)
    \/ AnalyzeReply(w)

Init == InitIn(SeqEnv)
Next == \E w \in SeqEnv.workers : Step(w, SeqEnv)
Spec == Init /\ [][Next]_vars

\* One upload at a time, a service that answers at once, and every reply
\* of at most MaxOutputLen tokens.
ParseEnv ==
    [workers  |-> {1},
     requests |-> UploadRequests({Pdf}, {[fmt |-> "pdf", text |-> <<"t">>]}),
     outputs  |-> SeqsUpTo(ReplyTokens, MaxOutputLen),
     errors   |-> {},
     clients  |-> {TRUE}]

ParseStep(w, env) ==
    \/ Arrive(w, env.requests)
    \/ UploadNoFile(w)
    \/ UploadSave(w)
    \/ UploadExtract(w)
    \/ UploadRemove(w)
    \/ UploadValidate(w)
    \/ GroqEnter(w)
    \/ CreateReturns(w, env.outputs)
    \/ UploadParse(w)

InitParse == InitIn(ParseEnv)
NextParse == \E w \in ParseEnv.workers : ParseStep(w, ParseEnv)
SpecParse == InitParse /\ [][NextParse]_vars

\* Two uploads at once.
RaceEnv ==
    [workers  |-> {1, 2},
     requests |-> UploadRequests(FileNames,
                                 {[fmt |-> "pdf", text |-> <<"t">>],
                                  [fmt |-> "pdf", text |-> <<"w">>],
                                  [fmt |-> "docx", text |-> <<"t">>]}),
     outputs  |-> SampleOutputs,
     errors   |-> {Exc("timeout", <<>>)},
     clients  |-> {TRUE}]

UploadStep(w, env) ==
    \/ Arrive(w, env.requests)
    \/ UploadNoFile(w)
    \/ UploadSave(w)
    \/ UploadExtract(w)
    \/ UploadRemove(w)
    \/ UploadValidate(w)
    \/ GroqEnter(w)
    \/ CreateReturns(w, env.outputs)
    \/ CreateThrows(w, env.errors)
    \/ GroqExhausted(w)
    \/ UploadParse(w)

InitRace == InitIn(RaceEnv)
NextRace == \E w \in RaceEnv.workers : UploadStep(w, RaceEnv)
SpecRace == InitRace /\ [][NextRace]_vars

-----------------------------------------------------------------------------
(* The completion client *)

Threw(o) == o.raised /= Nothing
\* The first n calls of request w all threw.
AllThrew(w, n) == \A i \in 1..n : Threw(outcomes[w][i])

\* C1: with a configured client and max_retries = N, once the underlying call
\* has thrown k-1 times (k <= N) the client calls again, and when call k
\* succeeds its stripped text is what the client returns: the success is the
\* k-th and last call, k <= N, and no call follows it.
C1_ReturnsFirstSuccess ==
    \A w \in DOMAIN pc :
        LET o == outcomes[w]
            k == Len(o)
        IN  /\ k <= max_retries[w]
            /\ \A i \in 1..(k - 1) : Threw(o[i])
            /\ (k >= 1 /\ k < max_retries[w] /\ Threw(o[k])) => pc[w] = "create"
            /\ (k >= 1 /\ ~Threw(o[k])) =>
                   /\ result[w] = Returned(Strip(o[k].returned[1]))
                   /\ pc[w] \notin {"groq", "create", "exhausted"}

\* C1's case: two failures, then a success on the third and last attempt.
C1_Witness ==
    \E w \in DOMAIN pc :
        /\ max_retries[w] = 3
        /\ Len(outcomes[w]) = 3
        /\ AllThrew(w, 2)
        /\ ~Threw(outcomes[w][3])
        /\ result[w].returned /= Nothing

\* C2: with a configured client and the default ceiling of 3, a client whose
\* calls all throw makes exactly 3 calls and then raises an error whose message
\* holds the count 3 and the text of the error the third call threw.
C2_ExhaustedAfterThree ==
    \A w \in DOMAIN pc :
        (max_retries[w] = DefaultMaxRetries /\ client) =>
            /\ (Len(outcomes[w]) = 3 /\ AllThrew(w, 3)) =>
                   pc[w] \in {"exhausted", "done"}
            /\ (pc[w] = "done" /\ Len(outcomes[w]) = 3 /\ AllThrew(w, 3)) =>
                   /\ result[w].raised /= Nothing
                   /\ result[w].raised[1].args = <<3, outcomes[w][3].raised[1].fmt>>
            /\ result[w].raised /= Nothing =>
                   (Len(outcomes[w]) = 3 /\ AllThrew(w, 3))

\* C2's case: three failures whose last differs from the first two.
C2_Witness ==
    \E w \in DOMAIN pc :
        /\ max_retries[w] = DefaultMaxRetries
        /\ Len(outcomes[w]) = 3
        /\ AllThrew(w, 3)
        /\ outcomes[w][3] /= outcomes[w][1]
        /\ outcomes[w][3] /= outcomes[w][2]
        /\ result[w].raised /= Nothing

\* C3: without a credential the process starts all the same; _call_groq makes
\* no underlying call and raises the configuration error, whatever the prompt
\* and max_retries; a handler answers with that error, as a 500, exactly when
\* it had built its prompt and reached the completion step.
C3_UnconfiguredFailsAtOnce ==
    ~client =>
        \A w \in DOMAIN pc :
            /\ outcomes[w] = <<>>
            /\ pc[w] \notin {"create", "exhausted", "parse", "reply"}
            /\ result[w] \in {NoResult, Raised(ConfigError)}
            /\ (pc[w] = "done" /\ request[w].kind = "call") =>
                   result[w] = Raised(ConfigError)
            /\ (pc[w] = "done" /\ request[w].kind /= "call") =>
                   IF prompt[w] /= NoPrompt
                   THEN /\ result[w] = Raised(ConfigError)
                        /\ response[w] = [status |-> 500,
                               body |-> [NoBody EXCEPT !.error = Some(ConfigError)]]
                   ELSE /\ result[w] = NoResult
                        /\ response[w].body.error /= Some(ConfigError)

\* C3's case: an upload with extractable text ends in the 500 response.
C3_Witness ==
    \E w \in DOMAIN pc :
        /\ ~client
        /\ request[w].kind = "upload"
        /\ pc[w] = "done"
        /\ response[w].status = 500
        /\ response[w].body.error = Some(ConfigError)

-----------------------------------------------------------------------------
(* The endpoints *)

Message(text) == [fmt |-> text, args |-> <<>>]
OnlyError(status, text) ==
    [status |-> status,
     body |-> [error |-> Some(Message(text)), ai_rating |-> Nothing,
               ai_suggestions |-> Nothing, ai_example |-> Nothing,
               raw_ai_output |-> Nothing, model |-> Nothing]]

\* No file at any path was written by request w.
NoFileOf(w) == \A p \in DOMAIN fs : fs[p] = NoFile \/ fs[p][1].by /= w

\* C4: POST /upload without a 'resume' member answers 400 {error: "No file
\* uploaded"} and does nothing else: no temporary path or file, no extraction,
\* no prompt and no completion call.
C4_NoFileUploaded ==
    \A w \in DOMAIN pc :
        (request[w].kind = "upload" /\ ~request[w].has_file) =>
            /\ pc[w] \in {"upload", "done"}
            /\ pc[w] = "done" => response[w] = OnlyError(400, "No file uploaded")
            /\ temp_path[w] = <<>>
            /\ NoFileOf(w)
            /\ source[w] = NoFile
            /\ resume_text[w] = <<>>
            /\ prompt[w] = NoPrompt
            /\ result[w] = NoResult
            /\ outcomes[w] = <<>>

\* C4's case: such a request has been answered.
C4_Witness ==
    \E w \in DOMAIN pc :
        /\ request[w].kind = "upload"
        /\ ~request[w].has_file
        /\ pc[w] = "done"
        /\ response[w].status = 400

\* A part of the reply was recovered: matched, and not empty.
Recovered(v) == v /= <<>> /\ v[1] /= <<>>
HasToken(s, tok) == \E i \in 1..Len(s) : s[i] = tok

\* C5: for every reply the completion client returns to POST /upload, the
\* answer is the 200 with ai_rating, ai_suggestions, ai_example and
\* raw_ai_output exactly when rating, suggestions and example were all
\* recovered from the reply; otherwise, as for a reply without the "Example of
\* rewritten section" marker, whose example is None, it is the 500
\* incomplete-analysis error with raw_ai_output the reply, never a partial
\* success.
C5_CompleteOrIncomplete ==
    \A w \in DOMAIN pc :
        (request[w].kind = "upload" /\ pc[w] = "done" /\ result[w].returned /= Nothing) =>
            LET reply == result[w].returned[1]
                p == parsed[w]
                all == Recovered(p.rating) /\ Recovered(p.suggestions)
                           /\ Recovered(p.example)
            IN  /\ ~HasToken(reply, "E") => p.example = Nothing
                /\ ~HasToken(reply, "S") => p.suggestions = Nothing
                /\ ~HasToken(reply, "R") => p.rating = Nothing
                /\ all =>
                       response[w] =
                           [status |-> 200,
                            body |-> [error |-> Nothing, ai_rating |-> p.rating,
                                      ai_suggestions |-> p.suggestions,
                                      ai_example |-> p.example,
                                      raw_ai_output |-> Some(reply),
                                      model |-> Nothing]]
                /\ ~all =>
                       response[w] =
                           [status |-> 500,
                            body |-> [error |-> Some(Message(
                                "AI could not provide a complete analysis. Please try again.")),
                                      ai_rating |-> Nothing, ai_suggestions |-> Nothing,
                                      ai_example |-> Nothing,
                                      raw_ai_output |-> Some(reply),
                                      model |-> Nothing]]

\* C5's case: a reply with a rating and suggestions but no example marker has
\* been answered with the 500.
C5_Witness ==
    \E w \in DOMAIN pc :
        /\ pc[w] = "done"
        /\ result[w].returned /= Nothing
        /\ ~HasToken(ai_reply[w], "E")
        /\ Recovered(parsed[w].rating)
        /\ Recovered(parsed[w].suggestions)
        /\ response[w].status = 500
        /\ response[w].body.raw_ai_output = Some(ai_reply[w])

\* C6: POST /analyze with a JSON object that has no resume_text, or a null or
\* empty one, answers 400 with the missing-text error and makes no completion
\* call; with any other text it calls the completion client once, which makes
\* at most 3 underlying calls, and answers 200 with ai_suggestions the
\* client's reply as returned and the model identifier, or 500 with the
\* client's error.
C6_Analyze ==
    \A w \in DOMAIN pc :
        (request[w].kind = "analyze" /\ pc[w] = "done") =>
            LET b == request[w].body
                missing == b = <<>> \/ b[1].type = "null" \/ b[1].s = <<>>
            IN  /\ missing =>
                       /\ response[w] = OnlyError(400, "No resume text provided")
                       /\ result[w] = NoResult
                       /\ outcomes[w] = <<>>
                /\ ~missing =>
                       /\ prompt[w] = [template |-> "analyze", text |-> b[1].s]
                       /\ Len(outcomes[w]) <= 3
                       /\ result[w] /= NoResult
                       /\ result[w].returned /= Nothing =>
                              response[w] =
                                  [status |-> 200,
                                   body |-> [error |-> Nothing, ai_rating |-> Nothing,
                                             ai_suggestions |-> result[w].returned,
                                             ai_example |-> Nothing,
                                             raw_ai_output |-> Nothing,
                                             model |-> Some(GROQ_MODEL)]]
                       /\ result[w].raised /= Nothing =>
                              response[w] =
                                  [status |-> 500,
                                   body |-> [NoBody EXCEPT !.error = result[w].raised]]

\* C6's case: a whitespace-only text went to the completion client and its
\* reply came back as the suggestions.
C6_Witness ==
    \E w \in DOMAIN pc :
        /\ request[w].kind = "analyze"
        /\ request[w].body = <<JStr(<<"w">>)>>
        /\ pc[w] = "done"
        /\ response[w].status = 200
        /\ response[w].body.ai_suggestions = Some(<<"R", "c", "d", "w", "S", "c", "t">>)

\* C7: every upload that saved its file has deleted it by the time it
\* responds, whatever the response.
C7_TempFileRemoved ==
    \A w \in DOMAIN pc :
        (request[w].kind = "upload" /\ pc[w] = "done") => NoFileOf(w)

\* The five terminal responses of POST /upload
IsSuccess(r) ==
    /\ r.status = 200
    /\ r.body.error = Nothing
    /\ r.body.model = Nothing
    /\ r.body.ai_rating /= Nothing
    /\ r.body.ai_suggestions /= Nothing
    /\ r.body.ai_example /= Nothing
    /\ r.body.raw_ai_output /= Nothing
IsMissingFile(r) == r = OnlyError(400, "No file uploaded")
IsEmptyExtraction(r) == r = OnlyError(400, "Could not extract text from resume.")
IsIncomplete(r) ==
    /\ r.status = 500
    /\ r.body.raw_ai_output /= Nothing
    /\ r.body = [NoBody EXCEPT
                   !.error = Some(Message(
                       "AI could not provide a complete analysis. Please try again.")),
                   !.raw_ai_output = r.body.raw_ai_output]
IsException(r) ==
    /\ r.status = 500
    /\ r.body.error /= Nothing
    /\ r.body = [NoBody EXCEPT !.error = r.body.error]

\* What saving, extracting and deleting raise
StepErrors ==
    {Message("[Errno 21] Is a directory"),
     Message("[Errno 2] No such file or directory"),
     Message("No /Root object! - Is this really a PDF?"),
     Message("Package not found")}

C8_Terminal ==
    \A w \in DOMAIN pc :
        request[w].kind = "upload" =>
            LET r == response[w]
            IN  /\ Len(outcomes[w]) <= 3
                /\ pc[w] /= "done" => r = NoResponse
                /\ pc[w] = "done" =>
                       /\ Cardinality({c \in 1..5 :
                              \/ c = 1 /\ IsSuccess(r)
                              \/ c = 2 /\ IsMissingFile(r)
                              \/ c = 3 /\ IsEmptyExtraction(r)
                              \/ c = 4 /\ IsIncomplete(r)
                              \/ c = 5 /\ IsException(r)}) = 1
                       /\ IsException(r) =>
                              \/ r.body.error = result[w].raised
                              \/ /\ r.body.error \in {Some(e) : e \in StepErrors}
                                 /\ prompt[w] = NoPrompt
                                 /\ result[w] = NoResult
                                 /\ outcomes[w] = <<>>
                       /\ (r.body.error = Some(Message("[Errno 21] Is a directory"))) =>
                              (NoFileOf(w) /\ source[w] = NoFile /\ resume_text[w] = <<>>)

\* The steps request w has left, at most.
Rank(w) ==
    CASE pc[w] = "idle" -> 12
      [] pc[w] = "upload" -> 11
      [] pc[w] = "extract" -> 10
      [] pc[w] = "remove" -> 9
      [] pc[w] = "validate" -> 8
      [] pc[w] = "groq" -> 7
      [] pc[w] = "create" -> 3 + (max_retries[w] - attempt[w])
      [] pc[w] = "exhausted" -> 2
      [] pc[w] = "parse" -> 1
      [] OTHER -> 0

\* C8: every POST /upload ends in exactly one of the five terminal responses
\* (200 success, 400 missing file, 400 empty extraction, 500 incomplete
\* analysis with the raw output, 500 with the exception's text), after at most
\* 3 completion calls; a failure of the save, the extraction or the delete is
\* answered at once with that exception, nothing having been retried or run
\* after it.  It ends: a request being handled always has a step to take,
\* and each of its steps brings it nearer to its response.
C8_UploadTerminates ==
    /\ []C8_Terminal
    /\ [](\A w \in DOMAIN pc :
            pc[w] \notin {"idle", "done"} => ENABLED UploadStep(w, RaceEnv))
    /\ [][\A w \in DOMAIN pc :
            \/ Rank(w)' < Rank(w)
            \/ pc'[w] = pc[w] /\ attempt'[w] = attempt[w]
                   /\ outcomes'[w] = outcomes[w] /\ response'[w] = response[w]]_vars

\* C8's case: one upload answered 200 after three completion calls, the other
\* answered with the exception its delete raised.
C8_Witness ==
    \E w, v \in DOMAIN pc :
        /\ pc[w] = "done"
        /\ IsSuccess(response[w])
        /\ Len(outcomes[w]) = 3
        /\ pc[v] = "done"
        /\ IsException(response[v])
        /\ response[v].body.error = Some(Message("[Errno 2] No such file or directory"))

\* File names whose extension is neither .pdf nor .docx
OtherNames == {Txt, DotPdf, <<>>}
AllWhitespace(text) == \A i \in 1..Len(text) : text[i] = "w"

Holding(w) == pc[w] \in {"extract", "remove"}
\* Another upload uses the temporary path of w.
SharesPath(w) ==
    \E v \in DOMAIN pc :
        /\ v /= w
        /\ request[v].has_file
        /\ request[v].filename = request[w].filename
        /\ temp_path[v] = temp_path[w]

\* C10: only an upload that shares its file name, and so its temporary path,
\* with a concurrent upload can find its file overwritten or gone while it
\* still needs it, extract another request's bytes, or fail with the
\* missing-file exception; uploads with different file names never touch each
\* other's temporary file.  (That such an interleaving exists is C10_Witness.)
C10_RaceOnlyOnSharedName ==
    \A w \in DOMAIN pc :
        (\/ Holding(w) /\ fs[temp_path[w]] /= Stored(w, request[w].file)
         \/ source[w] /= NoFile /\ source[w][1].by /= w
         \/ response[w].body.error = Some(Message("[Errno 2] No such file or directory"))
         \/ pc[w] = "done" /\ request[w].filename = Docx /\ request[w].file.fmt = "docx"
                /\ response[w].body.error = Some(Message("Package not found")))
            => SharesPath(w)

\* C10's case: of two uploads of one file name, one has extracted the bytes
\* the other saved, and the other has found the file gone and answered 500.
C10_Witness ==
    \E w, v \in DOMAIN pc :
        /\ w /= v
        /\ request[w].filename = request[v].filename
        /\ source[w] /= NoFile
        /\ source[w][1].by = v
        /\ pc[v] = "done"
        /\ response[v] = OnlyError(500, "[Errno 2] No such file or directory")

====
